---- MODULE Spec2Model ----
(***************************************************************************)
(* Model of src/heated_tank.py: the PID-controlled heated stirred tank     *)
(* simulator simulate_system and the Dash callback update_graphs.          *)
(*                                                                         *)
(* Numbers.  The program computes with Python ints and floats.  They are   *)
(* modelled as exact rationals <<n, d>> (d > 0, lowest terms), so the      *)
(* arithmetic identities the program relies on are the mathematical ones;  *)
(* the rounding of binary floating point is not modelled.  A division by   *)
(* zero raises ZeroDivisionError, as in Python.                            *)
(***************************************************************************)
EXTENDS Integers, Sequences, FiniteSets, TLC

VARIABLES
    default_params,           \* module-level dict, lines 7-24
    params,                   \* the dict passed to the running/last simulate_system call
    pc,                       \* "idle" | "loop": position of the single thread
    caller,                   \* "direct" | "update_graphs": who called simulate_system
    K_i, K_d,                 \* locals of simulate_system, lines 45-46
    T, t_time, Q,             \* locals, lines 48-50 (Python lists, here 1-based)
    error, integral_error, derivative_error, u,   \* locals, lines 51-54
    num_steps, n,             \* line 56 and the loop variable of line 58
    result,                   \* outcome of the last simulate_system call
    previous_temp_data, previous_Q_data, previous_slider_settings,  \* dcc.Store
    temp_fig, Q_fig, current_values, previous_values,               \* callback outputs
    ref                       \* history: one earlier completed call, for comparison

locals == <<K_i, K_d, T, t_time, Q, error, integral_error, derivative_error, u,
            num_steps, n>>
stores == <<previous_temp_data, previous_Q_data, previous_slider_settings>>
outputs == <<temp_fig, Q_fig, current_values, previous_values>>
vars == <<default_params, params, pc, caller, locals, result, stores, outputs, ref>>

----------------------------------------------------------------------------
(* Bounds of the model.                                                    *)

\* Largest number of loop iterations of a direct call (t_sim is drawn up to twice it).
MaxSteps == 3
\* Number of loop iterations of the dashboard's runs (default t_sim = 3600 s at
\* Tp = 0.1 s is 36000 iterations; the model's default horizon is cut to this).
HorizonSteps == 2

----------------------------------------------------------------------------
(* Exact rational arithmetic.                                              *)

Abs(x) == IF x < 0 THEN -x ELSE x

RECURSIVE GCD(_, _)
GCD(a, b) == IF b = 0 THEN a ELSE GCD(b, a % b)

\* n/d in lowest terms with a positive denominator (d # 0).
Frac(num, den) ==
    LET s == IF den < 0 THEN -1 ELSE 1
        g == GCD(Abs(num), Abs(den))
    IN  <<(s * num) \div g, (s * den) \div g>>

R(k) == <<k, 1>>
Zero == R(0)

RNeg(a) == <<-a[1], a[2]>>
RAdd(a, b) ==
    LET g == GCD(a[2], b[2])
        l == (a[2] \div g) * b[2]
    IN  Frac(a[1] * (l \div a[2]) + b[1] * (l \div b[2]), l)
RSub(a, b) == RAdd(a, RNeg(b))
RMul(a, b) ==
    LET g1 == GCD(Abs(a[1]), b[2])
        g2 == GCD(Abs(b[1]), a[2])
    IN  Frac((a[1] \div g1) * (b[1] \div g2), (a[2] \div g2) * (b[2] \div g1))
\* a / b for b # 0
RDiv(a, b) == RMul(a, IF b[1] > 0 THEN <<b[2], b[1]>> ELSE <<-b[2], -b[1]>>)
RLe(a, b) == RSub(a, b)[1] <= 0
RLt(a, b) == RSub(a, b)[1] < 0
RMin(a, b) == IF RLe(a, b) THEN a ELSE b
RMax(a, b) == IF RLe(b, a) THEN a ELSE b
\* Python's int() of a float: truncation toward zero.
Trunc(a) == IF a[1] >= 0 THEN a[1] \div a[2] ELSE -((-a[1]) \div a[2])
\* floor
Floor(a) == a[1] \div a[2]

Last(s) == s[Len(s)]
Repeat(x, k) == [i \in 1..k |-> x]

----------------------------------------------------------------------------
(* Parameters.                                                             *)

\* default_params, lines 7-24.  t_sim (3600 in the source) is cut to
\* HorizonSteps time steps so that a run of the dashboard is finite here.
DefaultParams ==
    [V |-> R(5), Q_in_out |-> Frac(1, 10), lamda |-> R(2300000), rho |-> R(1000),
     Cp |-> R(4200), Tin |-> R(15), Tset |-> R(40), Qmax |-> R(10), Qmin |-> R(0),
     t_sim |-> Frac(HorizonSteps, 10), Umax |-> R(10), Umin |-> R(0),
     Kp |-> Frac(1, 20), Tp |-> Frac(1, 10), Ti |-> R(1), Td |-> Frac(1, 10)]

\* The constraints of the specification's parameter contract (section 4.1).
Valid(p) ==
    /\ RLt(Zero, p.Tp) /\ RLt(Zero, p.t_sim)
    /\ RLt(Zero, p.rho) /\ RLt(Zero, p.Cp)
    /\ RLe(p.Umin, p.Umax) /\ RLe(p.Qmin, p.Qmax)

\* Line 56: num_steps = int(end_time / time_step), for time_step # 0.
NumSteps(p) == Trunc(RDiv(p.t_sim, p.Tp))

\* A small parameter dict from which the direct calls' inputs are varied.
Base ==
    [V |-> R(2), Q_in_out |-> R(1), lamda |-> R(2), rho |-> R(1), Cp |-> R(1),
     Tin |-> R(1), Tset |-> R(3), Qmax |-> R(2), Qmin |-> R(0), t_sim |-> R(2),
     Umax |-> R(2), Umin |-> R(0), Kp |-> R(1), Tp |-> R(1), Ti |-> R(1),
     Td |-> R(1)]

QRanges == {<<R(0), R(2)>>, <<R(1), R(2)>>, <<R(-1), R(2)>>, <<R(-2), R(-1)>>}
URanges == {<<R(0), R(2)>>, <<R(-2), R(2)>>, <<R(1), R(3)>>}

\* Parameter dicts that satisfy Valid, with at most MaxSteps loop iterations.
ValidSpace ==
    { p \in { [Base EXCEPT !.V = v, !.Tset = ts, !.Qmin = qr[1], !.Qmax = qr[2],
                           !.Umin = ur[1], !.Umax = ur[2], !.Kp = kp, !.Td = td,
                           !.Tp = tp, !.t_sim = R(d)] :
                v \in {R(1), R(2)}, ts \in {R(0), R(3)}, qr \in QRanges,
                ur \in URanges, kp \in {R(0), R(1)}, td \in {R(0), R(1)},
                tp \in {Frac(1, 2), R(1), R(2)}, d \in 1..(2 * MaxSteps) } :
        NumSteps(p) <= MaxSteps }

\* Parameter dicts that break one constraint, or make a divisor zero.
OddSpace ==
    {[Base EXCEPT !.Tp = x] : x \in {R(0), R(-1)}}
    \cup {[Base EXCEPT !.t_sim = x] : x \in {R(0), R(-1)}}
    \cup {[Base EXCEPT !.rho = x] : x \in {R(0), R(-1)}}
    \cup {[Base EXCEPT !.Cp = x] : x \in {R(0), R(-1)}}
    \cup {[Base EXCEPT !.Umin = x] : x \in {R(2), R(3)}}
    \cup {[Base EXCEPT !.Qmin = x] : x \in {R(3)}}
    \cup {[Base EXCEPT !.Ti = x] : x \in {R(0)}}
    \cup {[Base EXCEPT !.V = x] : x \in {R(0)}}

ParamSpace == ValidSpace \cup OddSpace

----------------------------------------------------------------------------
(* simulate_system, lines 27-69.                                           *)

\* Lines 45-46 divide by T_i and by time_step.
PrologueRaises(p) == p.Ti = Zero \/ p.Tp = Zero

\* Line 45: K_i = K_p * (time_step / T_i)
Ki_NoKp(p) == RDiv(p.Tp, p.Ti)
Ki(p) == RMul(p.Kp, RDiv(p.Tp, p.Ti))
\* Line 46: K_d = K_p * (T_d / time_step)
Kd(p) == RMul(p.Kp, RDiv(p.Td, p.Tp))

\* Line 50: Q = [0]
InitQ_Retained == IF Q = <<>> THEN <<Zero>> ELSE <<Last(Q)>>
InitQ == <<Zero>>

\* Line 58: the loop runs for n = 1 .. num_steps
LoopDone_OneLess(k, steps) == k >= steps
LoopDone(k, steps) == k > steps

\* Line 61: integral_error[-1] + error[-1] * time_step
NextIntegral_AntiWindup(prev, e, dt) ==
    IF Last(Q) = params.Qmax THEN prev ELSE RAdd(prev, RMul(e, dt))
NextIntegral(prev, e, dt) == RAdd(prev, RMul(e, dt))

\* Line 62: (error[-1] - error[-2]) / time_step if n > 1 else 0
Derivative(k, e, eprev, dt) == IF k > 1 THEN RDiv(RSub(e, eprev), dt) ELSE Zero

\* Line 64: K_p * error[-1] + K_i * integral_error[-1] + K_d * derivative_error[-1]
ControlSignal(p, ki, kd, e, ie, de) ==
    RAdd(RAdd(RMul(p.Kp, e), RMul(ki, ie)), RMul(kd, de))

\* Line 65 divides by (Umax - Umin); line 67 by V and by (rho * Cp).
LoopRaises(p) == p.Umax = p.Umin \/ p.V = Zero \/ RMul(p.rho, p.Cp) = Zero

\* Line 65: min(Qmax, max(0, ((Qmax - Qmin) / (Umax - Umin)) * (u[-1] - Umin) + Qmin))
HeatFlow(p, uu) ==
    RMin(p.Qmax,
         RMax(Zero,
              RAdd(RMul(RDiv(RSub(p.Qmax, p.Qmin), RSub(p.Umax, p.Umin)),
                        RSub(uu, p.Umin)),
                   p.Qmin)))

\* Line 67: T[-1] + (time_step / V) * ((lamda * Q[-1] / (rho * Cp))
\*                                      + F_in_out * (T_in - T[-1]))
PlantStep_HeatNotOverV(p, Tprev, q) ==
    RAdd(Tprev,
         RMul(p.Tp,
              RAdd(RDiv(RMul(p.lamda, q), RMul(p.rho, p.Cp)),
                   RDiv(RMul(p.Q_in_out, RSub(p.Tin, Tprev)), p.V))))
PlantStep_PreviousQ(p, Tprev, q) ==
    RAdd(Tprev,
         RMul(RDiv(p.Tp, p.V),
              RAdd(RDiv(RMul(p.lamda, Last(Q)), RMul(p.rho, p.Cp)),
                   RMul(p.Q_in_out, RSub(p.Tin, Tprev)))))
PlantStep(p, Tprev, q) ==
    RAdd(Tprev,
         RMul(RDiv(p.Tp, p.V),
              RAdd(RDiv(RMul(p.lamda, q), RMul(p.rho, p.Cp)),
                   RMul(p.Q_in_out, RSub(p.Tin, Tprev)))))

NoResult == [kind |-> "none", t |-> <<>>, T |-> <<>>, Q |-> <<>>]
Raised == [kind |-> "ZeroDivisionError", t |-> <<>>, T |-> <<>>, Q |-> <<>>]

\* History kept for comparing two calls: the dict and the returned lists of one
\* completed call, and whether a call with another dict has completed since.
NoRef == [set |-> FALSE]
Remember(remember) ==
    IF remember /\ ~ref.set
    THEN [set |-> TRUE, params |-> params, t |-> t_time, T |-> T, Q |-> Q,
          between |-> FALSE]
    ELSE IF ref.set /\ ref.params # params
         THEN [ref EXCEPT !.between = TRUE]
         ELSE ref

\* Lines 28-56: read the dict, compute the gains, initialise the lists.
\* A ZeroDivisionError ends the call; its frame is discarded (locals are dead).
Prologue(p) ==
    IF PrologueRaises(p)
    THEN /\ pc' = "idle"
         /\ result' = Raised
         /\ UNCHANGED locals
    ELSE /\ pc' = "loop"
         /\ K_i' = Ki(p)
         /\ K_d' = Kd(p)
         /\ T' = <<p.Tin>>
         /\ t_time' = <<Zero>>
         /\ Q' = InitQ
         /\ error' = <<RSub(p.Tset, p.Tin)>>
         /\ integral_error' = <<Zero>>
         /\ derivative_error' = <<Zero>>
         /\ u' = <<Zero>>
         /\ num_steps' = NumSteps(p)
         /\ n' = 1
         /\ result' = NoResult

\* A call simulate_system(p) from outside the dashboard.
CallSimulate(p) ==
    /\ pc = "idle"
    /\ params' = p
    /\ caller' = "direct"
    /\ Prologue(p)
    /\ UNCHANGED <<default_params, stores, outputs, ref>>

\* Lines 58-67: one iteration of the loop.
LoopStep ==
    /\ pc = "loop"
    /\ ~LoopDone(n, num_steps)
    /\ IF LoopRaises(params)
       THEN /\ pc' = "idle"
            /\ result' = Raised
            /\ UNCHANGED locals
       ELSE /\ t_time' = Append(t_time, RMul(R(n), params.Tp))
            /\ error' = Append(error, RSub(params.Tset, Last(T)))
            /\ integral_error' =
                   Append(integral_error,
                          NextIntegral(Last(integral_error), Last(error'), params.Tp))
            /\ derivative_error' =
                   Append(derivative_error,
                          Derivative(n, Last(error'), Last(error), params.Tp))
            /\ u' = Append(u, ControlSignal(params, K_i, K_d, Last(error'),
                                            Last(integral_error'),
                                            Last(derivative_error')))
            /\ Q' = Append(Q, HeatFlow(params, Last(u')))
            /\ T' = Append(T, PlantStep(params, Last(T), Last(Q')))
            /\ n' = n + 1
            /\ UNCHANGED <<pc, K_i, K_d, num_steps, result>>
    /\ UNCHANGED <<default_params, params, caller, stores, outputs, ref>>

\* Line 69, back in a direct caller: return t_time, T, Q.
\* remember: whether this call is the one kept in ref for later comparison.
Return(remember) ==
    /\ pc = "loop"
    /\ LoopDone(n, num_steps)
    /\ caller = "direct"
    /\ pc' = "idle"
    /\ result' = [kind |-> "trace", t |-> t_time, T |-> T, Q |-> Q]
    /\ ref' = Remember(remember)
    /\ UNCHANGED <<default_params, params, caller, locals, stores, outputs>>

NoFig == [shown |-> FALSE]

Init ==
    /\ default_params = DefaultParams
    /\ params = DefaultParams
    /\ pc = "idle"
    /\ caller = "direct"
    /\ K_i = Zero /\ K_d = Zero
    /\ T = <<>> /\ t_time = <<>> /\ Q = <<>>
    /\ error = <<>> /\ integral_error = <<>> /\ derivative_error = <<>> /\ u = <<>>
    /\ num_steps = 0 /\ n = 0
    /\ result = NoResult
    /\ previous_temp_data = [t |-> <<>>, T |-> <<>>, Tset |-> <<>>]
    /\ previous_Q_data = [t |-> <<>>, Q |-> <<>>]
    /\ previous_slider_settings =
           [Kp |-> DefaultParams.Kp, Ti |-> DefaultParams.Ti,
            Td |-> DefaultParams.Td, Tset |-> DefaultParams.Tset]
    /\ temp_fig = NoFig /\ Q_fig = NoFig
    /\ current_values = <<>> /\ previous_values = <<>>
    /\ ref = NoRef

----------------------------------------------------------------------------
(* update_graphs, lines 150-198, and the dcc.Store components, 127-129.    *)

\* Slider positions <<Kp, Ti, Td, Tset>> fed to the callback (within the ranges of
\* lines 80-114).  With each of them the heat flow saturates at 0 or at Qmax,
\* which keeps the exact fractions of a run within TLC's integers; the initial
\* position <<0.05, 1, 0.1, 40>> does not, after its first step.
SliderSettings ==
    {<<Frac(1, 20), R(1), Frac(1, 10), R(10)>>,
     <<Frac(1, 2), R(1), Frac(1, 10), R(40)>>,
     <<R(1), R(1), Frac(1, 10), R(40)>>,
     <<R(1), R(10), Frac(1, 10), R(10)>>}

\* Lines 151-155: params = default_params.copy(); params['Kp'] = Kp; ...
CallbackParams(d, kp, ti, td, ts) ==
    [d EXCEPT !.Kp = kp, !.Ti = ti, !.Td = td, !.Tset = ts]

\* Lines 150-157: the callback fires and calls simulate_system(params).  The
\* overrides go to the copy of line 151, so default_params stays as it is.
\* (n_clicks is an input of the callback that its body never reads.)
UpdateGraphs(kp, ti, td, ts) ==
    /\ pc = "idle"
    /\ params' = CallbackParams(default_params, kp, ti, td, ts)
    /\ caller' = "update_graphs"
    /\ Prologue(params')
    /\ UNCHANGED <<default_params, stores, outputs, ref>>

\* Lines 191-192: the f-strings, as the label and the values they show.
SliderText(label, s) == <<label, s.Kp, s.Ti, s.Td, s.Tset>>

\* Lines 195-197: the values returned for the three stores.
TempStore_KeepOld(tt, TT, ts) == previous_temp_data
TempStore(tt, TT, ts) == [t |-> tt, T |-> TT, Tset |-> ts]
QStore(tt, QQ) == [t |-> tt, Q |-> QQ]
SettingsStore(p) == [Kp |-> p.Kp, Ti |-> p.Ti, Td |-> p.Td, Tset |-> p.Tset]

\* Lines 157-198: simulate_system returns into update_graphs, which builds the
\* two figures and the two texts and returns them with the new store values.
Render(remember) ==
    /\ pc = "loop"
    /\ LoopDone(n, num_steps)
    /\ caller = "update_graphs"
    /\ pc' = "idle"
    /\ result' = [kind |-> "trace", t |-> t_time, T |-> T, Q |-> Q]
    /\ temp_fig' =
           [shown |-> TRUE,
            x |-> t_time, y_T |-> T, y_Tset |-> Repeat(params.Tset, Len(t_time)),
            prev_x |-> previous_temp_data.t, prev_T |-> previous_temp_data.T,
            prev_Tset |-> Repeat(previous_temp_data.Tset, Len(previous_temp_data.t))]
    /\ Q_fig' =
           [shown |-> TRUE, x |-> t_time, y_Q |-> Q,
            prev_x |-> previous_Q_data.t, prev_Q |-> previous_Q_data.Q]
    /\ previous_temp_data' = TempStore(t_time, T, params.Tset)
    /\ previous_Q_data' = QStore(t_time, Q)
    /\ previous_slider_settings' = SettingsStore(params)
    /\ current_values' = SliderText("Aktualne", SettingsStore(params))
    /\ previous_values' = SliderText("Poprzednie", previous_slider_settings)
    /\ ref' = Remember(remember)
    /\ UNCHANGED <<default_params, params, caller, locals>>

----------------------------------------------------------------------------
(* Specifications.                                                         *)

\* The simulator called once, over the whole parameter space (that a call does
\* not depend on the calls before it is C6, under SpecApp).
Next ==
    \/ \E p \in ParamSpace : result = NoResult /\ CallSimulate(p)
    \/ LoopStep
    \/ Return(FALSE)

Spec == Init /\ [][Next]_vars

\* Dicts passed by direct callers while the dashboard runs.
AppParamSpace ==
    {CallbackParams(default_params, s[1], s[2], s[3], s[4]) : s \in SliderSettings}

\* The dashboard: any sequence of callback invocations and direct calls.
NextApp ==
    \/ \E s \in SliderSettings : UpdateGraphs(s[1], s[2], s[3], s[4])
    \/ \E p \in AppParamSpace : CallSimulate(p)
    \/ LoopStep
    \/ \E remember \in BOOLEAN : Return(remember)
    \/ \E remember \in BOOLEAN : Render(remember)

SpecApp == Init /\ [][NextApp]_vars

----------------------------------------------------------------------------
(* Properties.                                                             *)

\* simulate_system has returned its three lists / has ended one way or another.
Returned == pc = "idle" /\ result.kind = "trace"
Completed == pc = "idle" /\ result.kind # "none"

\* Parameters within the contract that yield at least one step.
ValidRun(p) == Valid(p) /\ Floor(RDiv(p.t_sim, p.Tp)) >= 1

\* The temperature step written out term by term (not through PlantStep).
HeatTerm(p, q) == RDiv(RMul(p.lamda, q), RMul(RMul(p.rho, p.Cp), p.V))
FlowTerm(p, Tprev) == RDiv(RMul(p.Q_in_out, RSub(p.Tin, Tprev)), p.V)

RECURSIVE SumFrom(_, _)
SumFrom(s, k) == IF k > Len(s) THEN Zero ELSE RAdd(s[k], SumFrom(s, k + 1))

C2_QWithinLimits ==
    (Returned /\ RLe(params.Qmin, params.Qmax) /\ RLt(params.Umin, params.Umax)) =>
        \A k \in 1..Len(result.Q) :
            RLe(params.Qmin, result.Q[k]) /\ RLe(result.Q[k], params.Qmax)

\* C3, as claimed: with parameters that violate a constraint the call fails with
\* InvalidParameters, no integration step runs and no trace is returned.
C3_InvalidRejected ==
    /\ pc = "loop" => Valid(params)
    /\ (Completed /\ ~Valid(params)) => result.kind = "InvalidParameters"

\* C4, as claimed: when t_sim / Tp truncates to less than one step the call is
\* rejected with InvalidParameters instead of returning a trace.
C4_ZeroStepsRejected ==
    (Completed /\ ~PrologueRaises(params) /\ NumSteps(params) < 1) =>
        result.kind = "InvalidParameters"

\* C5, as claimed: with Kp = 0 every control sample is 0, or Qmin when Qmin > 0,
\* for any actuator range and any flow range.  Stated for the flow ranges with
\* Qmin <= 0 <= Qmax, in which the clamp at 0 of line 65 is the clamp at Qmin or
\* above it.
C5_ZeroGainZeroFlow ==
    (/\ Returned /\ ValidRun(params) /\ params.Kp = Zero
     /\ RLe(params.Qmin, Zero) /\ RLe(Zero, params.Qmax)) =>
        \A k \in 1..Len(result.Q) :
            result.Q[k] = IF RLt(Zero, params.Qmin) THEN params.Qmin ELSE Zero

\* C5, amended: with Kp = 0 and Umin = 0 the first control sample is 0 and every
\* later one is min(Qmax, max(0, Qmin)); the temperature advances under that
\* constant heat flow whatever the setpoint, and stays at Tin when the flow is 0.
C5_ZeroGainConstantFlow ==
    (Returned /\ params.Kp = Zero /\ params.Umin = Zero) =>
        LET Qc == RMin(params.Qmax, RMax(Zero, params.Qmin))
        IN  /\ result.Q[1] = Zero
            /\ \A k \in 2..Len(result.Q) : result.Q[k] = Qc
            /\ \A k \in 2..Len(result.T) :
                   RSub(result.T[k], result.T[k - 1]) =
                       RMul(params.Tp, RAdd(HeatTerm(params, Qc),
                                            FlowTerm(params, result.T[k - 1])))
            /\ Qc = Zero => \A k \in 1..Len(result.T) : result.T[k] = params.Tin

\* A zero-gain run of two steps or more with Umin = 0 and a floor Qmin > 0, the
\* setpoint away from the inlet temperature.
C5_Witness ==
    /\ Returned /\ params.Kp = Zero /\ params.Umin = Zero
    /\ RLt(Zero, params.Qmin)
    /\ params.Tset # params.Tin
    /\ Len(result.Q) >= 3
    /\ result.Q[3] = params.Qmin

\* C7, as claimed: for every index with a successor, the returned Q at that index
\* is computed from setpoint - T at that index, and advances T at that index to
\* the next one.  (Python index k is position k + 1 here.)
C7_SameIndex ==
    (Returned /\ ValidRun(params)) =>
        \A k \in 1..(Len(result.T) - 1) :
            /\ error[k] = RSub(params.Tset, result.T[k])
            /\ result.Q[k] = HeatFlow(params, u[k])
            /\ RSub(result.T[k + 1], result.T[k]) =
                   RMul(params.Tp, RAdd(HeatTerm(params, result.Q[k]),
                                        FlowTerm(params, result.T[k])))

\* C7, amended: for every index k >= 1, Q[k] is the control output computed from
\* error = setpoint - T[k-1], and it is Q[k] that advances T[k-1] to T[k]; Q[0] is
\* the constant 0 and is not applied to the plant.
C7_ShiftedIndex ==
    Q # <<>> =>
        /\ Q[1] = Zero
        /\ Len(Q) = Len(T) /\ Len(error) = Len(T) /\ Len(u) = Len(T)
        /\ \A k \in 2..Len(T) :
               /\ error[k] = RSub(params.Tset, T[k - 1])
               /\ u[k] = RAdd(RAdd(RMul(params.Kp, error[k]),
                                   RMul(K_i, integral_error[k])),
                              RMul(K_d, derivative_error[k]))
               /\ Q[k] = HeatFlow(params, u[k])
               /\ RSub(T[k], T[k - 1]) =
                      RMul(params.Tp, RAdd(HeatTerm(params, Q[k]),
                                           FlowTerm(params, T[k - 1])))

\* A returned run in which the heat flow is positive, changes from one step to the
\* next, and has moved the temperature.
C7_Witness ==
    /\ Returned
    /\ Len(result.T) >= 3
    /\ RLt(Zero, result.Q[2])
    /\ result.Q[3] # result.Q[2]
    /\ result.T[2] # result.T[1]

\* C8, as claimed: each step adds Tp * (lamda Q / (rho Cp) + F (Tin - T) / V): the
\* heating term is not divided by V.
C8_HeatNotOverV ==
    ValidRun(params) =>
      \A k \in 2..Len(T) :
        RSub(T[k], T[k - 1]) =
            RMul(params.Tp,
                 RAdd(RDiv(RMul(params.lamda, Q[k]), RMul(params.rho, params.Cp)),
                      FlowTerm(params, T[k - 1])))

\* C8, amended: each step adds Tp * (lamda Q / (rho Cp V) + F (Tin - T) / V): the
\* heating term and the through-flow term are both divided by V.
C8_BothOverV ==
    \A k \in 2..Len(T) :
        RSub(T[k], T[k - 1]) =
            RMul(params.Tp, RAdd(HeatTerm(params, Q[k]), FlowTerm(params, T[k - 1])))

\* A step with V # 1 in which both terms are at work: heat is applied and the
\* temperature is away from the inlet temperature.
C8_Witness ==
    /\ Len(T) >= 3
    /\ params.V # R(1)
    /\ RLt(Zero, Q[3])
    /\ T[2] # params.Tin

\* C9: the integral term starts at 0, grows at every step by error * Tp, whatever
\* the heat flow, and so equals Tp times the sum of the errors of the steps so far.
C9_IntegralAccumulates ==
    integral_error # <<>> =>
        /\ integral_error[1] = Zero
        /\ Len(integral_error) = Len(error)
        /\ \A k \in 2..Len(integral_error) :
               integral_error[k] =
                   RAdd(integral_error[k - 1], RMul(error[k], params.Tp))
        /\ Last(integral_error) = RMul(params.Tp, SumFrom(error, 2))

\* The heat flow is held at Qmax by a control signal above Umax for two steps in a
\* row, and the integral term has grown across them.
C9_Witness ==
    /\ Len(Q) >= 3
    /\ Q[2] = params.Qmax /\ RLt(params.Umax, u[2])
    /\ Q[3] = params.Qmax /\ RLt(params.Umax, u[3])
    /\ RLt(integral_error[2], integral_error[3])

\* C6: a call whose dict equals that of an earlier call returns the same three
\* lists as the earlier one, whatever calls were made in between; no call changes
\* default_params, and a running call does not change the dict it was given.
C6_Deterministic ==
    /\ []((Returned /\ ref.set /\ ref.params = params) =>
              (result.t = ref.t /\ result.T = ref.T /\ result.Q = ref.Q))
    /\ [][default_params' = default_params /\ (pc = "loop" => params' = params)]_vars

\* A call has returned a trace of several samples for the dict of the remembered
\* call, after a call with another dict completed in between, with the dashboard
\* showing a run.
C6_Witness ==
    /\ Returned
    /\ ref.set /\ ref.between /\ ref.params = params
    /\ Len(result.T) >= 3 /\ result.T[3] # result.T[1]
    /\ temp_fig.shown

\* C10: what an invocation of update_graphs shows as previous trace and previous
\* slider values is what the invocation before it showed as current trace and
\* current slider values; the first invocation shows an empty previous trace and
\* the default slider values.
C10_PreviousIsLastCurrent ==
    [][(pc = "loop" /\ caller = "update_graphs" /\ pc' = "idle") =>
          IF temp_fig.shown
          THEN /\ temp_fig'.prev_x = temp_fig.x
               /\ temp_fig'.prev_T = temp_fig.y_T
               /\ temp_fig'.prev_Tset = temp_fig.y_Tset
               /\ Q_fig'.prev_x = Q_fig.x
               /\ Q_fig'.prev_Q = Q_fig.y_Q
               /\ Tail(previous_values') = Tail(current_values)
          ELSE /\ temp_fig'.prev_x = <<>>
               /\ temp_fig'.prev_T = <<>>
               /\ temp_fig'.prev_Tset = <<>>
               /\ Q_fig'.prev_x = <<>>
               /\ Q_fig'.prev_Q = <<>>
               /\ Tail(previous_values') =
                      <<DefaultParams.Kp, DefaultParams.Ti, DefaultParams.Td,
                        DefaultParams.Tset>>]_vars

\* The dashboard shows a previous run next to a current run with other settings
\* and another temperature curve.
C10_Witness ==
    /\ pc = "idle"
    /\ temp_fig.shown
    /\ temp_fig.prev_T # <<>>
    /\ temp_fig.prev_T # temp_fig.y_T
    /\ Q_fig.prev_Q # Q_fig.y_Q
    /\ Tail(previous_values) # Tail(current_values)

====
